---- MODULE Spec2Model ----
(***************************************************************************)
(* KMP substring search of src/src/kmp.js: KMP.stringToChars,              *)
(* KMP.makePartialMatchTable and KMP.find, one action per loop iteration.  *)
(*                                                                         *)
(* A JavaScript string is a sequence of UTF-16 code units (integers).  A   *)
(* "char" produced by stringToChars is a string holding one code point; it *)
(* is represented here by that code point.  Arrays are sequences, read     *)
(* with the zero-based index of the source through At.                     *)
(***************************************************************************)
EXTENDS Integers, Sequences, FiniteSets

\* ------------------------------------------------------------- bounds
\* Longest text and longest keyword, in UTF-16 code units.
MaxTestLen == 4
MaxKeywordLen == 4

\* The code units the inputs are drawn from: 'a', and the surrogate pair
\* 0xD83D 0xDE00 (U+1F600), whose halves may also appear alone.
CodeUnits == {97, 55357, 56832}

RECURSIVE StringsUpTo(_)
StringsUpTo(n) ==
    IF n = 0 THEN {<<>>}
    ELSE LET shorter == StringsUpTo(n - 1)
         IN  shorter \cup {Append(s, u) : s \in {t \in shorter : Len(t) = n - 1}, u \in CodeUnits}

\* ------------------------------------------------------------- state
VARIABLES
    testStr,       \* find's argument testStr (code units)
    keywordStr,    \* find's argument keywordStr (code units)
    testChars,     \* find: testChars
    keywordChars,  \* find: keywordChars, makePartialMatchTable: keywordChars
    table,         \* makePartialMatchTable: table, then find: table
    ti,            \* makePartialMatchTable: i
    tj,            \* makePartialMatchTable: j
    i,             \* find: i
    j,             \* find: j
    pc,            \* position in the program
    result,        \* find's return value, once pc = "done"
    tableIters,    \* iterations of makePartialMatchTable's loop executed so far
    scanIters      \* iterations of find's loop executed so far

vars == <<testStr, keywordStr, testChars, keywordChars, table, ti, tj, i, j,
          pc, result, tableIters, scanIters>>

\* ------------------------------------------------------------- JavaScript values
\* The value of a read outside an array, and of an empty array slot.
undefined == -1

\* arr[k] for a zero-based index k.
At(arr, k) == IF k \in 0 .. (Len(arr) - 1) THEN arr[k + 1] ELSE undefined

\* new Array(length): length empty slots.
NewArray(length) == [k \in 1 .. length |-> undefined]

\* arr.fill(value, start): every slot from index start on becomes value.
fill(arr, value, start) ==
    [k \in 1 .. Len(arr) |-> IF k - 1 >= start THEN value ELSE arr[k]]

IsHighSurrogate(u) == u \in 55296 .. 56319
IsLowSurrogate(u) == u \in 56320 .. 57343
CodePoint(hi, lo) == 65536 + (hi - 55296) * 1024 + (lo - 56320)

\* for (let c of str) chars.push(c): the string iterator yields one code
\* point at a time, a high surrogate followed by a low one being one char.
RECURSIVE stringToChars(_)
stringToChars(str) ==
    IF str = <<>> THEN <<>>
    ELSE IF Len(str) >= 2 /\ IsHighSurrogate(str[1]) /\ IsLowSurrogate(str[2])
         THEN <<CodePoint(str[1], str[2])>> \o stringToChars(SubSeq(str, 3, Len(str)))
         ELSE <<str[1]>> \o stringToChars(Tail(str))

testLength == Len(testChars)
keywordLength == Len(keywordChars)
length == Len(keywordChars)

\* ------------------------------------------------------------- makePartialMatchTable
\* let table = new Array(length); table.fill(0, 0);
InitialTableUnfilledHead(n) == fill(NewArray(n), 0, 1)
InitialTable(n) == fill(NewArray(n), 0, 0)

\* find's prologue up to the call of makePartialMatchTable, and that
\* function's prologue: the conversions, the table, i = 1, j = 0.
FindStart ==
    /\ pc = "start"
    /\ testChars' = stringToChars(testStr)
    /\ keywordChars' = stringToChars(keywordStr)
    /\ table' = InitialTable(Len(stringToChars(keywordStr)))
    /\ ti' = 1
    /\ tj' = 0
    /\ pc' = "table"
    /\ UNCHANGED <<testStr, keywordStr, i, j, result, tableIters, scanIters>>

\* keywordChars[i] !== keywordChars[j] and j === 0: table[i] = 0; i++
TableMismatchAtZero ==
    /\ pc = "table"
    /\ ti < length
    /\ At(keywordChars, ti) # At(keywordChars, tj)
    /\ tj = 0
    /\ table' = [table EXCEPT ![ti + 1] = 0]
    /\ ti' = ti + 1
    /\ tableIters' = tableIters + 1
    /\ UNCHANGED <<testStr, keywordStr, testChars, keywordChars, tj, i, j, pc,
                   result, scanIters>>

\* The brute-force construction the source leaves in a comment:
\* i = i - j + 1; j = 0.
TableFallbackBruteForce ==
    /\ pc = "table"
    /\ ti < length
    /\ At(keywordChars, ti) # At(keywordChars, tj)
    /\ tj # 0
    /\ ti' = ti - tj + 1
    /\ tj' = 0
    /\ tableIters' = tableIters + 1
    /\ UNCHANGED <<testStr, keywordStr, testChars, keywordChars, table, i, j, pc,
                   result, scanIters>>

\* keywordChars[i] !== keywordChars[j] and j !== 0: j = table[j - 1]
TableFallback ==
    /\ pc = "table"
    /\ ti < length
    /\ At(keywordChars, ti) # At(keywordChars, tj)
    /\ tj # 0
    /\ tj' = At(table, tj - 1)
    /\ tableIters' = tableIters + 1
    /\ UNCHANGED <<testStr, keywordStr, testChars, keywordChars, table, ti, i, j, pc,
                   result, scanIters>>

\* The match branch with the increment of j before the store.
TableMatchStoreAfterIncrement ==
    /\ pc = "table"
    /\ ti < length
    /\ At(keywordChars, ti) = At(keywordChars, tj)
    /\ table' = [table EXCEPT ![ti + 1] = tj + 2]
    /\ ti' = ti + 1
    /\ tj' = tj + 1
    /\ tableIters' = tableIters + 1
    /\ UNCHANGED <<testStr, keywordStr, testChars, keywordChars, i, j, pc,
                   result, scanIters>>

\* The match branch without j++.
TableMatchKeepJ ==
    /\ pc = "table"
    /\ ti < length
    /\ At(keywordChars, ti) = At(keywordChars, tj)
    /\ table' = [table EXCEPT ![ti + 1] = tj + 1]
    /\ ti' = ti + 1
    /\ tableIters' = tableIters + 1
    /\ UNCHANGED <<testStr, keywordStr, testChars, keywordChars, tj, i, j, pc,
                   result, scanIters>>

\* keywordChars[i] === keywordChars[j]: table[i] = j + 1; i++; j++
TableMatch ==
    /\ pc = "table"
    /\ ti < length
    /\ At(keywordChars, ti) = At(keywordChars, tj)
    /\ table' = [table EXCEPT ![ti + 1] = tj + 1]
    /\ ti' = ti + 1
    /\ tj' = tj + 1
    /\ tableIters' = tableIters + 1
    /\ UNCHANGED <<testStr, keywordStr, testChars, keywordChars, i, j, pc,
                   result, scanIters>>

\* The loop condition i < length fails: return table; back in find,
\* let i = 0; let j = 0.
TableReturn ==
    /\ pc = "table"
    /\ ~(ti < length)
    /\ i' = 0
    /\ j' = 0
    /\ pc' = "scan"
    /\ UNCHANGED <<testStr, keywordStr, testChars, keywordChars, table, ti, tj,
                   result, tableIters, scanIters>>

\* ------------------------------------------------------------- find
\* testChars[i] === keywordChars[j]: i++; j++; if (j === keywordLength) break;
ScanMatch ==
    /\ pc = "scan"
    /\ i < testLength
    /\ At(testChars, i) = At(keywordChars, j)
    /\ i' = i + 1
    /\ j' = j + 1
    /\ pc' = IF j + 1 = keywordLength THEN "break" ELSE "scan"
    /\ scanIters' = scanIters + 1
    /\ UNCHANGED <<testStr, keywordStr, testChars, keywordChars, table, ti, tj,
                   result, tableIters>>

\* The fallback that steps j back by one instead of reading the table.
ScanFallbackByOne ==
    /\ pc = "scan"
    /\ i < testLength
    /\ At(testChars, i) # At(keywordChars, j)
    /\ j > 0
    /\ j' = j - 1
    /\ scanIters' = scanIters + 1
    /\ UNCHANGED <<testStr, keywordStr, testChars, keywordChars, table, ti, tj, i, pc,
                   result, tableIters>>

\* testChars[i] !== keywordChars[j] and j > 0: j = table[j - 1]
ScanFallback ==
    /\ pc = "scan"
    /\ i < testLength
    /\ At(testChars, i) # At(keywordChars, j)
    /\ j > 0
    /\ j' = At(table, j - 1)
    /\ scanIters' = scanIters + 1
    /\ UNCHANGED <<testStr, keywordStr, testChars, keywordChars, table, ti, tj, i, pc,
                   result, tableIters>>

\* testChars[i] !== keywordChars[j] and j is not > 0: i++
ScanAdvance ==
    /\ pc = "scan"
    /\ i < testLength
    /\ At(testChars, i) # At(keywordChars, j)
    /\ ~(j > 0)
    /\ i' = i + 1
    /\ scanIters' = scanIters + 1
    /\ UNCHANGED <<testStr, keywordStr, testChars, keywordChars, table, ti, tj, j, pc,
                   result, tableIters>>

\* The loop condition i < testLength fails.
ScanExhausted ==
    /\ pc = "scan"
    /\ ~(i < testLength)
    /\ pc' = "exhausted"
    /\ UNCHANGED <<testStr, keywordStr, testChars, keywordChars, table, ti, tj, i, j,
                   result, tableIters, scanIters>>

\* A return statement that decides on j and not on i.
ReturnValueByJ == IF j = keywordLength THEN i - keywordLength ELSE -1

\* A return statement that reports the end of the match.
ReturnValueMatchEnd == IF i = testLength THEN -1 ELSE i

\* (i === testLength) ? -1 : (i - keywordLength)
ReturnValue == IF i = testLength THEN -1 ELSE i - keywordLength

\* return ...;
FindReturn ==
    /\ pc \in {"break", "exhausted"}
    /\ result' = ReturnValue
    /\ pc' = "done"
    /\ UNCHANGED <<testStr, keywordStr, testChars, keywordChars, table, ti, tj, i, j,
                   tableIters, scanIters>>

\* ------------------------------------------------------------- specification
Init ==
    /\ testStr \in StringsUpTo(MaxTestLen)
    /\ keywordStr \in StringsUpTo(MaxKeywordLen)
    /\ testChars = <<>>
    /\ keywordChars = <<>>
    /\ table = <<>>
    /\ ti = 0
    /\ tj = 0
    /\ i = 0
    /\ j = 0
    /\ pc = "start"
    /\ result = undefined
    /\ tableIters = 0
    /\ scanIters = 0

Next ==
    \/ FindStart
    \/ TableMismatchAtZero
    \/ TableFallback
    \/ TableMatch
    \/ TableReturn
    \/ ScanMatch
    \/ ScanFallback
    \/ ScanAdvance
    \/ ScanExhausted
    \/ FindReturn

Spec == Init /\ [][Next]_vars

\* The code is sequential and never suspends: a step that can be taken is taken.
FairSpec == Spec /\ WF_vars(Next)

\* ------------------------------------------------------------- reference definitions
\* arr.slice(from, to): the units at the zero-based indices from .. to - 1.
Slice(arr, from, to) == SubSeq(arr, from + 1, to)

Max(S) == CHOOSE x \in S : \A y \in S : y <= x
Min(S) == CHOOSE x \in S : \A y \in S : x <= y

\* The first k units of s are also its last k units, and k < Len(s).
IsProperPrefixSuffix(s, k) ==
    /\ k \in 0 .. (Len(s) - 1)
    /\ Slice(s, 0, k) = Slice(s, Len(s) - k, Len(s))

\* Brute force over every candidate length; 0 for the empty sequence.
LongestProperPrefixSuffix(s) ==
    IF s = <<>> THEN 0
    ELSE Max({k \in 0 .. (Len(s) - 1) : IsProperPrefixSuffix(s, k)})

OccursAt(T, P, r) ==
    /\ r \in 0 .. (Len(T) - Len(P))
    /\ Slice(T, r, r + Len(P)) = P

\* Naive forward search: the smallest index at which P occurs in T, or -1.
NaiveIndexOf(T, P) ==
    IF \E r \in 0 .. (Len(T) - Len(P)) : OccursAt(T, P, r)
    THEN Min({r \in 0 .. (Len(T) - Len(P)) : OccursAt(T, P, r)})
    ELSE -1

\* makePartialMatchTable has returned its table to find.
TableReturned == pc \in {"scan", "break", "exhausted", "done"}

\* ------------------------------------------------------------- claims
\* C1: for every text and pattern, find returns what a naive forward search
\* returns: the smallest index at which the pattern occurs, or -1.
C1_FindAgreesWithNaiveSearch ==
    pc = "done" => result = NaiveIndexOf(testChars, keywordChars)

\* C2: every entry table[k] of the returned table is the length of the longest
\* proper prefix of pattern[0..k] that is also a suffix of it, by brute force.
C2_TableIsLongestProperPrefixSuffix ==
    TableReturned =>
        \A k \in 0 .. (length - 1) :
            At(table, k) = LongestProperPrefixSuffix(Slice(keywordChars, 0, k + 1))

C2_Witness ==
    /\ pc = "scan"
    /\ length = 4
    /\ At(table, 2) = 2
    /\ At(table, 3) = 0

\* C3: when the scan loop exits through the break (j reached the pattern
\* length) find returns i - keywordLength, wherever the match lies in the text,
\* and find returns -1 only when the loop exits because i exhausted the text.
C3_ReturnPolicy ==
    [][pc' = "done" =>
          /\ (pc = "break" => result' = i - keywordLength)
          /\ (result' = -1 => pc = "exhausted")]_vars

\* C4: for an empty pattern the table is empty, the scan loop never takes the
\* matching branch (j stays 0) and never leaves through the break, and find
\* returns -1 for every text.
C4_EmptyPattern ==
    keywordStr = <<>> =>
        /\ pc # "start" => (keywordLength = 0 /\ table = <<>>)
        /\ pc # "break"
        /\ pc \in {"scan", "exhausted", "done"} => j = 0
        /\ pc = "done" => result = -1

C4_Witness ==
    /\ pc = "done"
    /\ keywordStr = <<>>
    /\ testLength >= 2
    /\ scanIters = testLength
    /\ result = -1

\* C5: the returned table has exactly |P| entries, each an assigned integer;
\* the empty pattern gives the empty table, a pattern of length 1 gives [0],
\* and table[0] = 0 for every non-empty pattern.
C5_TableShape ==
    TableReturned =>
        /\ Len(table) = length
        /\ \A k \in 0 .. (length - 1) : At(table, k) # undefined /\ At(table, k) \in Nat
        /\ length = 0 => table = <<>>
        /\ length = 1 => table = <<0>>
        /\ length >= 1 => At(table, 0) = 0

C5_Witness ==
    /\ pc = "scan"
    /\ length >= 2
    /\ Len(table) = length
    /\ At(table, 0) = 0
    /\ At(table, length - 1) >= 1

\* C6: in every state while makePartialMatchTable runs, and in the returned
\* table, 0 <= table[k] <= k for every k.
C6_EntriesBounded ==
    pc # "start" =>
        \A k \in 0 .. (length - 1) : 0 <= At(table, k) /\ At(table, k) <= k

C6_Witness ==
    /\ pc = "table"
    /\ ti < length
    /\ ti >= 2
    /\ At(table, ti - 1) = ti - 1

\* An iteration of makePartialMatchTable's loop, of find's loop.
TableIteration == tableIters' = tableIters + 1
ScanIteration == scanIters' = scanIters + 1

\* Every iteration advances i or strictly decreases j, and 2*i - j strictly
\* increases.
MeasureIncreases ==
    /\ TableIteration =>
          /\ (ti' = ti + 1) \/ (ti' = ti /\ tj' < tj)
          /\ 2 * ti' - tj' > 2 * ti - tj
    /\ ScanIteration =>
          /\ (i' = i + 1) \/ (i' = i /\ j' < j)
          /\ 2 * i' - j' > 2 * i - j

\* C7 as stated: both loops run to completion, 2*i - j strictly increases, the
\* builder loop runs at most 2*(|P|-1) times and the scan loop at most 2*|T|.
C7_TerminationAsStated ==
    /\ [](pc # "start" =>
            /\ tableIters <= 2 * (length - 1)
            /\ scanIters <= 2 * testLength)
    /\ [][MeasureIncreases]_vars
    /\ <>(pc = "done")

\* C7, amended: as stated, with the builder bound 2*(|P|-1) for a non-empty
\* pattern and 0 iterations for the empty pattern.
C7_Termination ==
    /\ [](pc # "start" =>
            /\ length >= 1 => tableIters <= 2 * (length - 1)
            /\ length = 0 => tableIters = 0
            /\ scanIters <= 2 * testLength)
    /\ [][MeasureIncreases]_vars
    /\ <>(pc = "done")

C7_Witness ==
    /\ pc = "done"
    /\ length >= 2
    /\ tableIters >= length
    /\ scanIters > testLength

\* C8: whenever the builder loop comes to a new index i (at i = 1 and after
\* each step that advances i), j is the longest proper prefix-suffix length of
\* pattern[0..i) and equals table[i-1]; at every iteration j < i and
\* pattern[0..j) = pattern[i-j..i); a fallback reads table[j-1] at a recorded
\* index below i; no entry below i is rewritten.
C8_BuilderInvariant ==
    /\ []((pc = "table" /\ ti = 1 /\ ti <= length) =>
            /\ tj = LongestProperPrefixSuffix(Slice(keywordChars, 0, ti))
            /\ tj = At(table, ti - 1))
    /\ [][(pc' = "table" /\ ti' # ti /\ ti' <= length) =>
            /\ tj' = LongestProperPrefixSuffix(Slice(keywordChars', 0, ti'))
            /\ tj' = At(table', ti' - 1)]_vars
    /\ [](pc = "table" =>
            /\ tj < ti
            /\ Slice(keywordChars, 0, tj) = Slice(keywordChars, ti - tj, ti)
            /\ (ti < length /\ tj # 0) =>
                  /\ tj - 1 \in 0 .. (Len(table) - 1)
                  /\ tj - 1 < ti
                  /\ At(table, tj - 1) =
                        LongestProperPrefixSuffix(Slice(keywordChars, 0, tj)))
    /\ [][\A k \in 0 .. (ti - 1) : At(table', k) = At(table, k)]_vars

C8_Witness ==
    /\ pc = "table"
    /\ ti < length
    /\ tj >= 2
    /\ At(keywordChars, ti) # At(keywordChars, tj)
    /\ At(table, tj - 1) >= 1

\* C9: for a non-empty pattern, at the head of every scan-loop iteration
\* 0 <= j < m, j <= i <= |T| and text[i-j..i) = pattern[0..j); the reads
\* text[i], pattern[j] and table[j-1] are inside their sequences; and i never
\* decreases during the scan.
C9_ScanInvariant ==
    /\ []((pc = "scan" /\ keywordLength >= 1) =>
            /\ 0 <= j /\ j < keywordLength
            /\ j <= i /\ i <= testLength
            /\ Slice(testChars, i - j, i) = Slice(keywordChars, 0, j)
            /\ i < testLength =>
                  /\ i \in 0 .. (Len(testChars) - 1)
                  /\ j \in 0 .. (Len(keywordChars) - 1)
                  /\ (At(testChars, i) # At(keywordChars, j) /\ j > 0) =>
                        j - 1 \in 0 .. (Len(table) - 1))
    /\ [][(pc = "scan" /\ keywordLength >= 1) => i' >= i]_vars

C9_Witness ==
    /\ pc = "scan"
    /\ i < testLength
    /\ j >= 2
    /\ At(testChars, i) # At(keywordChars, j)
    /\ At(table, j - 1) >= 1

\* C10: a result other than -1 is a real occurrence, inside the text, and no
\* occurrence starts before it.
C10_FoundIsFirstOccurrence ==
    (pc = "done" /\ result # -1) =>
        /\ 0 <= result /\ result <= testLength - keywordLength
        /\ Slice(testChars, result, result + keywordLength) = keywordChars
        /\ \A r \in 0 .. (result - 1) : ~OccursAt(testChars, keywordChars, r)

C10_Witness ==
    /\ pc = "done"
    /\ result >= 1
    /\ keywordLength >= 2
    /\ scanIters > i

====
